---- MODULE Spec2Model ----
(***************************************************************************)
(* kube-problem: the runner of pkg/runner (Start, doWatchNodes,            *)
(* doWatchNamespace, reportProblem, resolveProblem) as a state machine.    *)
(*                                                                         *)
(* Time is counted in seconds.  A report or resolve message is kept as the *)
(* fields of the problemDesc it is rendered from; the random greeting in   *)
(* front of the text is left out.                                          *)
(***************************************************************************)
EXTENDS Integers, Sequences, FiniteSets, Bags, TLC

(* ------------------------------------------------------------------ *)
(* Program constants                                                  *)
(* ------------------------------------------------------------------ *)

\* runner.go:15  defaultInterval = time.Second * 10
defaultInterval == 10
\* runner.go:134 time.Minute*30
staleAge == 1800
\* namespace.go:56 time.Hour
restartWindow == 3600

\* thresholds written inline in reportProblem and resolveProblem
nodeResourcePressureReportAt == 10
podPendingReportAt == 30
nodeResourcePressureResolveAt == 5
podStatusResolveAt == 10
podPendingResolveAt == 10

\* nodes.go:54,65  usage >= 0.95, as a percentage
usageLimitPercent == 95

problemTypeNodeCondition == "NodeCondition"
problemTypeNodeResourcePressure == "NodeResourcePressure"
problemTypePodStatus == "PodStatus"
problemTypePodRestarts == "PodRestarts"
problemTypePodPending == "PodPending"

resourceKindPod == "Pod"
resourceKindNode == "Node"

NodeReady == "Ready"
ConditionTrue == "True"
ConditionFalse == "False"
ConditionUnknown == "Unknown"
NodeUnreachablePodReason == "NodeLost"

OkayStatus == {"Completed", "Running"}

CriticalStatus ==
  {"Error", "Unknown", "ImagePullBackOff", "CrashLoopBackOff", "RunContainerError",
   "ErrImagePull", "CreateContainerConfigError", "InvalidImageName", "Evicted"}

\* a nil error, and the errors the collaborators return
nil == "nil"
sendError == "slack: send failed"
listNodesError == "list nodes failed"
listPodsError == "list pods failed"

(* ------------------------------------------------------------------ *)
(* Bounds of the model                                                *)
(* ------------------------------------------------------------------ *)

\* poll cycles of the unrestricted specification
MaxCycles == 3
\* poll cycles of the steady-cluster specification
MaxSteadyCycles == 192
\* poll cycles of the one-pod specification
MaxPodCycles == 14
\* seconds of work in a slow cycle (a blocked API call or Slack retry loop)
SlowCycle == 1801
\* iterations of SpecNode
MaxNodeCycles == 3
\* iterations of SpecStatus, and the init containers and containers of its pod
MaxStatusCycles == 1
MaxInitContainers == 2
MaxContainers == 2
\* iterations of SpecStartUp
MaxStartUpCycles == 32
\* iterations of SpecNamespaces
MaxNamespaceCycles == 2
\* iterations of SpecClassify
MaxClassifyCycles == 2
\* iterations of SpecUsage
MaxUsageCycles == 2
\* PostMessage attempts of one SendMessage call that the model follows
MaxAttempts == 3
\* longest outage (attempts failing retryably in a row) that ends
MaxOutage == 2

VARIABLES
  problems,              \* Runner.problems: id -> problemDesc
  sent,                  \* bag of the messages Slack accepted
  now,                   \* wall clock, seconds
  pc,                    \* position in Start
  start,                 \* Start's local start
  err,                   \* the error Start returned, nil while it runs
  watchNodes,            \* Runner.watchNodes
  watchNamespaces,       \* Runner.watchNamespaces
  nodeMetricsAvailable,  \* doWatchNodes' locals
  nodeMetricsMap,
  nodeList,
  idx,                   \* index of the node or pod the loop is at
  nsIdx,                 \* index into watchNamespaces
  podList,               \* doWatchNamespace's local
  cluster,               \* what the API server and metrics server hold
  cycle,                 \* number of the running poll cycle (history)
  history,               \* per resource, run-length log of classifier results (history)
  send                   \* a call of slack.Client.SendMessage: position, locals, attempts

vars ==
  <<problems, sent, now, pc, start, err, watchNodes, watchNamespaces,
    nodeMetricsAvailable, nodeMetricsMap, nodeList, idx, nsIdx, podList,
    cluster, cycle, history, send>>

(* ------------------------------------------------------------------ *)
(* Maps                                                               *)
(* ------------------------------------------------------------------ *)

EmptyMap == [k \in {} |-> k]

MapDelete(m, k) == [j \in DOMAIN m \ {k} |-> m[j]]

MapPut(m, k, v) == [j \in DOMAIN m \cup {k} |-> IF j = k THEN v ELSE m[j]]

(* ------------------------------------------------------------------ *)
(* problemDesc and the messages                                       *)
(* ------------------------------------------------------------------ *)

nilProblem == [id |-> "", problemType |-> "nil"]

problemDesc(type, kind, name, namespace, id, message, t) ==
  [problemType |-> type, kind |-> kind, name |-> name, namespace |-> namespace,
   id |-> id, message |-> message,
   resolvedCounter |-> 0, occuredCounter |-> 0, reported |-> FALSE, occured |-> t]

ReportMessage(problem) ==
  [op |-> "report", kind |-> problem.kind, name |-> problem.name,
   namespace |-> problem.namespace, message |-> problem.message,
   id |-> problem.id, occured |-> problem.occured]

ResolveMessage(problem) ==
  [op |-> "resolve", kind |-> problem.kind, name |-> problem.name,
   namespace |-> "", message |-> "",
   id |-> problem.id, occured |-> problem.occured]

\* a result that drops the error
ResultWithoutError(p, s, e) == [problems |-> p, sent |-> s, err |-> nil]

Result(p, s, e) == [problems |-> p, sent |-> s, err |-> e]

\* slack.Client.SendMessage as the runner sees it: sendErr is what the call
\* returns, and the message is in the channel only when that is nil
SendMessage(channel, msg, sendErr) ==
  IF sendErr = nil THEN channel (+) SetToBag({msg}) ELSE channel

(* ------------------------------------------------------------------ *)
(* slack.go: SendMessage and its retry loop                           *)
(* ------------------------------------------------------------------ *)

\* strings.Contains
Contains(s, substr) ==
  \E i \in 1..(Len(s) - Len(substr) + 1) : SubSeq(s, i, i + Len(substr) - 1) = substr

\* isNetErrorRetryable without its last else-if
isNetErrorRetryableButTimedOut(e) ==
  IF e = nil THEN FALSE
  ELSE IF Contains(e, "Connection closed by foreign host") THEN TRUE
  ELSE IF Contains(e, "net/http: TLS handshake timeout") THEN TRUE
  ELSE IF Contains(e, "i/o timeout") THEN TRUE
  ELSE FALSE

isNetErrorRetryable(e) ==
  IF e = nil THEN FALSE
  ELSE IF Contains(e, "Connection closed by foreign host") THEN TRUE
  ELSE IF Contains(e, "net/http: TLS handshake timeout") THEN TRUE
  ELSE IF Contains(e, "i/o timeout") THEN TRUE
  ELSE IF Contains(e, "connection timed out") THEN TRUE
  ELSE FALSE

\* no call of SendMessage under way
notCalled ==
  [pc |-> "idle", err |-> nil, shouldRetry |-> FALSE, attempts |-> <<>>,
   outage |-> 0, returned |-> nil]

\* the other variables
runnerVars ==
  <<problems, sent, now, pc, start, err, watchNodes, watchNamespaces,
    nodeMetricsAvailable, nodeMetricsMap, nodeList, idx, nsIdx, podList,
    cluster, cycle, history>>

\* "var err error; shouldRetry := true"; outage is how many attempts the
\* network lets fail before one gets a final answer, forever for all of them
SendCalled(outage) ==
  /\ send.pc = "idle"
  /\ send' = [send EXCEPT !.pc = "for", !.err = nil, !.shouldRetry = TRUE,
                          !.outage = outage]
  /\ UNCHANGED runnerVars

\* one iteration of "for shouldRetry": PostMessage answers e
Posted(e) ==
  /\ send.pc = "for"
  /\ send.shouldRetry
  /\ Len(send.attempts) < MaxAttempts
  /\ send' = [send EXCEPT !.err = e, !.shouldRetry = isNetErrorRetryable(e),
                          !.attempts = Append(@, e),
                          !.outage = IF @ > 0 THEN @ - 1 ELSE @]
  /\ UNCHANGED runnerVars

\* "return err" once the loop condition is false
Returned ==
  /\ send.pc = "for"
  /\ ~send.shouldRetry
  /\ send' = [send EXCEPT !.pc = "returned", !.returned = send.err]
  /\ UNCHANGED runnerVars

(* ------------------------------------------------------------------ *)
(* runner.go: the report and resolve protocol                         *)
(* ------------------------------------------------------------------ *)

\* sendReportMessage without its "if problem.reported { return nil }"
sendReportMessageAgain(p, s, id, sendErr) ==
  LET marked == [p EXCEPT ![id].reported = TRUE]
  IN  Result(marked, SendMessage(s, ReportMessage(marked[id]), sendErr), sendErr)

\* p, s: the registry and the channel before the call
sendReportMessage(p, s, id, sendErr) ==
  IF p[id].reported
    THEN Result(p, s, nil)
    ELSE LET marked == [p EXCEPT ![id].reported = TRUE]
         IN  Result(marked, SendMessage(s, ReportMessage(marked[id]), sendErr), sendErr)

\* problem: the record already taken out of the registry by the caller
sendResolveMessage(p, s, problem, sendErr) ==
  Result(p, SendMessage(s, ResolveMessage(problem), sendErr), sendErr)

\* reportDue with > for >= in the PodPending branch
reportDueLate(problem) ==
  \/ problem.problemType = problemTypeNodeCondition
  \/ /\ problem.problemType = problemTypeNodeResourcePressure
     /\ problem.occuredCounter >= nodeResourcePressureReportAt
  \/ problem.problemType = problemTypePodStatus
  \/ /\ problem.problemType = problemTypePodPending
     /\ problem.occuredCounter > podPendingReportAt
  \/ problem.problemType = problemTypePodRestarts

\* reportDue with the NodeResourcePressure branch one occurrence early
reportDueEarly(problem) ==
  \/ problem.problemType = problemTypeNodeCondition
  \/ /\ problem.problemType = problemTypeNodeResourcePressure
     /\ problem.occuredCounter >= nodeResourcePressureReportAt - 1
  \/ problem.problemType = problemTypePodStatus
  \/ /\ problem.problemType = problemTypePodPending
     /\ problem.occuredCounter >= podPendingReportAt
  \/ problem.problemType = problemTypePodRestarts

\* the conditions under which reportProblem goes on to sendReportMessage
reportDue(problem) ==
  \/ problem.problemType = problemTypeNodeCondition
  \/ /\ problem.problemType = problemTypeNodeResourcePressure
     /\ problem.occuredCounter >= nodeResourcePressureReportAt
  \/ problem.problemType = problemTypePodStatus
  \/ /\ problem.problemType = problemTypePodPending
     /\ problem.occuredCounter >= podPendingReportAt
  \/ problem.problemType = problemTypePodRestarts

\* reportProblem storing the new descriptor's message and timestamp in a
\* record that exists
reportProblemRefreshing(p, s, problem, sendErr) ==
  LET inserted == IF problem.id \in DOMAIN p
                    THEN [p EXCEPT ![problem.id].message = problem.message,
                                   ![problem.id].occured = problem.occured]
                    ELSE MapPut(p, problem.id, problem)
      counted == [inserted EXCEPT ![problem.id].occuredCounter = @ + 1]
  IN  IF reportDue(counted[problem.id])
        THEN sendReportMessage(counted, s, problem.id, sendErr)
        ELSE Result(counted, s, nil)

reportProblem(p, s, problem, sendErr) ==
  LET inserted == IF problem.id \in DOMAIN p THEN p ELSE MapPut(p, problem.id, problem)
      counted == [inserted EXCEPT ![problem.id].occuredCounter = @ + 1]
  IN  IF reportDue(counted[problem.id])
        THEN sendReportMessage(counted, s, problem.id, sendErr)
        ELSE Result(counted, s, nil)

\* deleteAndResolve without its look at problem.reported
deleteAndResolveAny(p, s, problem, sendErr) ==
  sendResolveMessage(MapDelete(p, problem.id), s, problem, sendErr)

\* deleteAndResolve without its delete(r.problems, problem.id)
deleteAndResolveKeeping(p, s, problem, sendErr) ==
  IF problem.reported
    THEN sendResolveMessage(p, s, problem, sendErr)
    ELSE Result(p, s, nil)

\* delete(r.problems, problem.id), then the resolve message if it was reported
deleteAndResolve(p, s, problem, sendErr) ==
  IF problem.reported
    THEN sendResolveMessage(MapDelete(p, problem.id), s, problem, sendErr)
    ELSE Result(MapDelete(p, problem.id), s, nil)

\* resolveDue with > for >= in the PodStatus branch
resolveDueLate(problem) ==
  \/ problem.problemType = problemTypeNodeCondition
  \/ /\ problem.problemType = problemTypeNodeResourcePressure
     /\ problem.resolvedCounter >= nodeResourcePressureResolveAt
  \/ /\ problem.problemType = problemTypePodStatus
     /\ problem.resolvedCounter > podStatusResolveAt
  \/ /\ problem.problemType = problemTypePodPending
     /\ problem.resolvedCounter >= podPendingResolveAt

\* the conditions under which resolveProblem deletes the record; there is
\* no branch for problemTypePodRestarts
resolveDue(problem) ==
  \/ problem.problemType = problemTypeNodeCondition
  \/ /\ problem.problemType = problemTypeNodeResourcePressure
     /\ problem.resolvedCounter >= nodeResourcePressureResolveAt
  \/ /\ problem.problemType = problemTypePodStatus
     /\ problem.resolvedCounter >= podStatusResolveAt
  \/ /\ problem.problemType = problemTypePodPending
     /\ problem.resolvedCounter >= podPendingResolveAt

resolveProblem(p, s, id, sendErr) ==
  LET counted == [p EXCEPT ![id].resolvedCounter = @ + 1]
  IN  IF resolveDue(counted[id])
        THEN deleteAndResolve(counted, s, counted[id], sendErr)
        ELSE Result(counted, s, nil)

\* the range loops of doWatchNodes and doWatchNamespace over r.problems:
\* order is the order the map iteration visits the matching records in,
\* failAt the position whose Send fails (0: none does); the loop returns at
\* the first error
RECURSIVE resolveEach(_, _, _, _, _)
resolveEach(p, s, order, i, failAt) ==
  IF i > Len(order)
    THEN Result(p, s, nil)
    ELSE LET r == resolveProblem(p, s, order[i], IF i = failAt THEN sendError ELSE nil)
         IN  IF r.err # nil THEN r ELSE resolveEach(r.problems, r.sent, order, i + 1, failAt)

\* every order a set can be visited in
Orders(S) == {o \in [1..Cardinality(S) -> S] : \A x \in S : \E i \in DOMAIN o : o[i] = x}

(* ------------------------------------------------------------------ *)
(* nodes.go: the node classifier                                      *)
(* ------------------------------------------------------------------ *)

\* a node: [name, kind, conditions, cpuCapacity, memCapacity], a condition:
\* [type, status, message]; capacities and usages are MilliValue()s

conditionProblem(node, condition, t) ==
  LET msg == "Node " \o node.name \o " has condition (" \o condition.type \o "): "
               \o condition.message
  IN  problemDesc(problemTypeNodeCondition, node.kind, node.name, "", msg, msg, t)

readyProblem(node, condition, t) ==
  LET msg == "Node " \o node.name \o " has ready status '" \o condition.status \o "': "
               \o condition.message
  IN  problemDesc(problemTypeNodeCondition, node.kind, node.name, "", msg, msg, t)

RECURSIVE scanConditions(_, _, _)
scanConditions(node, i, t) ==
  IF i > Len(node.conditions)
    THEN nilProblem
    ELSE LET condition == node.conditions[i]
         IN  IF condition.type # NodeReady /\ condition.status # ConditionFalse
               THEN conditionProblem(node, condition, t)
             ELSE IF condition.type = NodeReady /\ condition.status # ConditionTrue
               THEN readyProblem(node, condition, t)
             ELSE scanConditions(node, i + 1, t)

isNodeProblem(node, t) == scanConditions(node, 1, t)

missingMetricsProblem(node, t) ==
  LET msg == "Metrics for node " \o node.name
               \o " cannot be retrieved. This could mean the node crashed or is under heavy load"
  IN  problemDesc(problemTypeNodeResourcePressure, node.kind, node.name, "", msg, msg, t)

cpuProblem(node, t) ==
  LET msg == "Node " \o node.name
               \o " has constantly around 100% cpu usage, this could slow down workloads running on the node"
  IN  problemDesc(problemTypeNodeResourcePressure, node.kind, node.name, "", msg, msg, t)

memProblem(node, t) ==
  LET msg == "Node " \o node.name
               \o " has constantly around 100% memory usage, this could slow down workloads running on the node"
  IN  problemDesc(problemTypeNodeResourcePressure, node.kind, node.name, "", msg, msg, t)

\* usageHigh with > for >=
usageAbove(used, avail) ==
  IF avail = 0 THEN used > 0 ELSE used * 100 > usageLimitPercent * avail

\* float64(used) / float64(avail) >= 0.95 for non-negative integers: x/0 is
\* +Inf for x > 0 and NaN, which compares false, for 0/0
usageHigh(used, avail) ==
  IF avail = 0 THEN used > 0 ELSE used * 100 >= usageLimitPercent * avail

\* the value of problem when the if / else-if chain of the loop body is left
nodeProblem(node, available, metricsMap, t) ==
  IF available /\ node.name \notin DOMAIN metricsMap
    THEN missingMetricsProblem(node, t)
  ELSE IF available /\ node.name \in DOMAIN metricsMap
    THEN IF usageHigh(metricsMap[node.name].cpu, node.cpuCapacity)
           THEN cpuProblem(node, t)
         ELSE IF usageHigh(metricsMap[node.name].memory, node.memCapacity)
           THEN memProblem(node, t)
         ELSE isNodeProblem(node, t)
  ELSE isNodeProblem(node, t)

\* "Handle problem reporting or resolving" stands inside the last else-if
\* branch: it runs only for a node that has a usage sample
nodeHandled(node, available, metricsMap) ==
  available /\ node.name \in DOMAIN metricsMap

nodeMatches(problem, node) ==
  problem.kind = node.kind /\ problem.name = node.name

(* ------------------------------------------------------------------ *)
(* namespace.go: the pod classifier                                   *)
(* ------------------------------------------------------------------ *)

\* a pod: [name, namespace, phase, reason, deleted, initContainers,
\* initContainerStatuses, containerStatuses]; a container status:
\* [state, reason, signal, exitCode, ready, lastTerminated], state one of
\* "waiting", "running", "terminated", "none"; lastTerminated is
\* noTermination or [finishedAt, exitCode, reason]

noTermination == [exitCode |-> 0, none |-> TRUE]

\* initStatus with the exit code looked at before the signal
initStatusByExitCode(container, i, n) ==
  IF container.state = "terminated"
    THEN IF container.reason = ""
           THEN IF container.exitCode # 0
                  THEN "Init:ExitCode:" \o ToString(container.exitCode)
                  ELSE "Init:Signal:" \o ToString(container.signal)
           ELSE "Init:" \o container.reason
  ELSE IF /\ container.state = "waiting"
          /\ container.reason # ""
          /\ container.reason # "PodInitializing"
    THEN "Init:" \o container.reason
  ELSE "Init:" \o ToString(i) \o "/" \o ToString(n)

initStatus(container, i, n) ==
  IF container.state = "terminated"
    THEN IF container.reason = ""
           THEN IF container.signal # 0
                  THEN "Init:Signal:" \o ToString(container.signal)
                  ELSE "Init:ExitCode:" \o ToString(container.exitCode)
           ELSE "Init:" \o container.reason
  ELSE IF /\ container.state = "waiting"
          /\ container.reason # ""
          /\ container.reason # "PodInitializing"
    THEN "Init:" \o container.reason
  ELSE "Init:" \o ToString(i) \o "/" \o ToString(n)

\* the first loop: [reason, initializing]; i counts from 0 as in the code
RECURSIVE scanInit(_, _, _)
scanInit(pod, i, reason) ==
  IF i >= Len(pod.initContainerStatuses)
    THEN [reason |-> reason, initializing |-> FALSE]
    ELSE LET container == pod.initContainerStatuses[i + 1]
         IN  IF container.state = "terminated" /\ container.exitCode = 0
               THEN scanInit(pod, i + 1, reason)
               ELSE [reason |-> initStatus(container, i, pod.initContainers),
                     initializing |-> TRUE]

\* the second loop, from the last container to the first: [reason, hasRunning]
RECURSIVE scanContainers(_, _, _, _)
scanContainers(pod, i, reason, hasRunning) ==
  IF i < 0
    THEN [reason |-> reason, hasRunning |-> hasRunning]
    ELSE LET container == pod.containerStatuses[i + 1]
         IN  IF container.state = "waiting" /\ container.reason # ""
               THEN scanContainers(pod, i - 1, container.reason, hasRunning)
             ELSE IF container.state = "terminated" /\ container.reason # ""
               THEN scanContainers(pod, i - 1, container.reason, hasRunning)
             ELSE IF container.state = "terminated" /\ container.reason = ""
               THEN IF container.signal # 0
                      THEN scanContainers(pod, i - 1,
                             "Signal:" \o ToString(container.signal), hasRunning)
                      ELSE scanContainers(pod, i - 1,
                             "ExitCode:" \o ToString(container.exitCode), hasRunning)
             ELSE IF container.ready /\ container.state = "running"
               THEN scanContainers(pod, i - 1, reason, TRUE)
             ELSE scanContainers(pod, i - 1, reason, hasRunning)

GetPodStatus(pod) ==
  LET reason0 == IF pod.reason # "" THEN pod.reason ELSE pod.phase
      init == scanInit(pod, 0, reason0)
      scan == scanContainers(pod, Len(pod.containerStatuses) - 1, init.reason, FALSE)
      reason1 == IF init.initializing THEN init.reason
                 ELSE IF scan.reason = "Completed" /\ scan.hasRunning THEN "Running"
                 ELSE scan.reason
  IN  IF pod.deleted /\ pod.reason = NodeUnreachablePodReason THEN "Unknown"
      ELSE IF pod.deleted THEN "Terminating"
      ELSE reason1

podKey(pod, type) == pod.name \o "/" \o pod.namespace \o type

podStatusProblem(pod, status, t) ==
  problemDesc(problemTypePodStatus, resourceKindPod, pod.name, pod.namespace,
    podKey(pod, problemTypePodStatus),
    "Pod '" \o pod.namespace \o "/" \o pod.name \o "' has critical status '" \o status \o "'",
    t)

podPendingProblem(pod, status, t) ==
  problemDesc(problemTypePodPending, resourceKindPod, pod.name, pod.namespace,
    podKey(pod, problemTypePodPending),
    "Pod '" \o pod.namespace \o "/" \o pod.name \o "' is not starting with status '"
      \o status \o "'",
    t)

podRestartsProblem(pod, last, t) ==
  problemDesc(problemTypePodRestarts, resourceKindPod, pod.name, pod.namespace,
    podKey(pod, problemTypePodRestarts),
    "Pod '" \o pod.namespace \o "/" \o pod.name \o "' has restarted "
      \o ToString(t - last.finishedAt) \o " seconds ago due to '" \o last.reason
      \o "' with exit code '" \o ToString(last.exitCode) \o "'",
    t)

\* restartedRecently with < for <= in the comparison with time.Hour
restartedWithinHour(containerStatus, t) ==
  /\ containerStatus.lastTerminated # noTermination
  /\ t - containerStatus.lastTerminated.finishedAt < restartWindow
  /\ containerStatus.lastTerminated.exitCode # 0

restartedRecently(containerStatus, t) ==
  /\ containerStatus.lastTerminated # noTermination
  /\ t - containerStatus.lastTerminated.finishedAt <= restartWindow
  /\ containerStatus.lastTerminated.exitCode # 0

RECURSIVE scanRestarts(_, _, _)
scanRestarts(pod, i, t) ==
  IF i > Len(pod.containerStatuses)
    THEN nilProblem
    ELSE IF restartedRecently(pod.containerStatuses[i], t)
           THEN podRestartsProblem(pod, pod.containerStatuses[i].lastTerminated, t)
           ELSE scanRestarts(pod, i + 1, t)

\* the value of problem when the if / else-if chain of the loop body is left
podProblem(pod, t) ==
  LET status == GetPodStatus(pod)
  IN  IF status \in CriticalStatus THEN podStatusProblem(pod, status, t)
      ELSE IF status \in OkayStatus THEN scanRestarts(pod, 1, t)
      ELSE podPendingProblem(pod, status, t)

podMatches(problem, pod) ==
  /\ problem.kind = resourceKindPod
  /\ problem.name = pod.name
  /\ problem.namespace = pod.namespace

(* ------------------------------------------------------------------ *)
(* History: what the classifiers returned, per resource               *)
(* ------------------------------------------------------------------ *)

resourceOf(kind, name, namespace) == <<kind, name, namespace>>

\* history[resource] is a sequence of runs [id, handled, count, since, last]:
\* the classifier returned the descriptor id ("" for none) in count
\* examinations in a row, the first at time since and the latest at time last;
\* handled says where the loop body took it: "report", "resolve" or "skipped"
observe(h, res, id, handled, t) ==
  LET runs == IF res \in DOMAIN h THEN h[res] ELSE <<>>
      n == Len(runs)
  IN  IF n > 0 /\ runs[n].id = id /\ runs[n].handled = handled
        THEN MapPut(h, res, [runs EXCEPT ![n].count = @ + 1, ![n].last = t])
        ELSE MapPut(h, res,
               Append(runs, [id |-> id, handled |-> handled, count |-> 1,
                             since |-> t, last |-> t]))

(* ------------------------------------------------------------------ *)
(* runner.go: Start, one action per step of its loop                  *)
(* ------------------------------------------------------------------ *)

\* where Start goes when the nodes are done
afterNodes(namespaces) == IF Len(namespaces) > 0 THEN "doWatchNamespace" ELSE "sleep"

\* the history entry of the node the loop of doWatchNodes is at
LogNode ==
  LET node == nodeList[idx]
      problem == nodeProblem(node, nodeMetricsAvailable, nodeMetricsMap, now)
  IN  history' = observe(history, resourceOf(node.kind, node.name, ""), problem.id,
                   IF ~nodeHandled(node, nodeMetricsAvailable, nodeMetricsMap) THEN "skipped"
                   ELSE IF problem # nilProblem THEN "report" ELSE "resolve",
                   now)

\* the history entry of the pod the loop of doWatchNamespace is at
LogPod ==
  LET pod == podList[idx]
      problem == podProblem(pod, now)
  IN  history' = observe(history, resourceOf(resourceKindPod, pod.name, pod.namespace),
                   problem.id, IF problem # nilProblem THEN "report" ELSE "resolve", now)

\* where an iteration of Start's loop begins
loopHead(nodes, namespaces) == IF nodes THEN "doWatchNodes" ELSE afterNodes(namespaces)

config == <<watchNodes, watchNamespaces>>
nodeLocals == <<nodeMetricsAvailable, nodeMetricsMap, nodeList>>

\* ListNodes without its "if err != nil { return err }": the loop runs over
\* the list it has
ListNodesGoingOn(listErr) ==
  /\ pc = "doWatchNodes"
  /\ nodeMetricsAvailable' = (cluster.metrics.err = nil)
  /\ nodeMetricsMap' = IF cluster.metrics.err = nil THEN cluster.metrics.items ELSE EmptyMap
  /\ nodeList' = IF listErr # nil THEN <<>> ELSE cluster.nodes
  /\ err' = err
  /\ IF Len(nodeList') > 0
       THEN pc' = "nodes" /\ idx' = 1 /\ nsIdx' = nsIdx
       ELSE pc' = afterNodes(watchNamespaces) /\ idx' = idx /\ nsIdx' = 1
  /\ UNCHANGED <<problems, sent, now, start, config, send, podList, cluster, cycle, history>>

\* doWatchNodes up to its loop: the metrics call and the node list call;
\* listErr is what Nodes().List returns
ListNodes(listErr) ==
  /\ pc = "doWatchNodes"
  /\ nodeMetricsAvailable' = (cluster.metrics.err = nil)
  /\ nodeMetricsMap' = IF cluster.metrics.err = nil THEN cluster.metrics.items ELSE EmptyMap
  /\ IF listErr # nil
       THEN /\ pc' = "stopped"
            /\ err' = listErr
            /\ UNCHANGED <<nodeList, idx, nsIdx>>
       ELSE /\ nodeList' = cluster.nodes
            /\ err' = err
            /\ IF Len(cluster.nodes) > 0
                 THEN pc' = "nodes" /\ idx' = 1 /\ nsIdx' = nsIdx
                 ELSE pc' = afterNodes(watchNamespaces) /\ idx' = idx /\ nsIdx' = 1
  /\ UNCHANGED <<problems, sent, now, start, config, send, podList, cluster, cycle, history>>

\* one iteration of the loop of doWatchNodes; sendErr is what Send returns
\* when reportProblem calls it, failAt as for resolveEach
WatchNode(sendErr, failAt) ==
  /\ pc = "nodes"
  /\ LET node == nodeList[idx]
         problem == nodeProblem(node, nodeMetricsAvailable, nodeMetricsMap, now)
         handled == nodeHandled(node, nodeMetricsAvailable, nodeMetricsMap)
     IN  \E order \in Orders({id \in DOMAIN problems : nodeMatches(problems[id], node)}) :
           LET r == IF ~handled THEN Result(problems, sent, nil)
                    ELSE IF problem # nilProblem
                      THEN reportProblem(problems, sent, problem, sendErr)
                    ELSE resolveEach(problems, sent, order, 1, failAt)
           IN  /\ problems' = r.problems
               /\ sent' = r.sent
               /\ IF r.err # nil
                    THEN pc' = "stopped" /\ err' = r.err /\ UNCHANGED <<idx, nsIdx>>
                  ELSE IF idx < Len(nodeList)
                    THEN pc' = "nodes" /\ err' = err /\ idx' = idx + 1 /\ nsIdx' = nsIdx
                  ELSE /\ pc' = afterNodes(watchNamespaces)
                       /\ err' = err
                       /\ idx' = idx
                       /\ nsIdx' = 1
  /\ UNCHANGED <<now, start, config, send, nodeLocals, podList, cluster, cycle>>

\* where Start goes when the pods of namespace number n are done
afterNamespace(n, namespaces) == IF n < Len(namespaces) THEN "doWatchNamespace" ELSE "sleep"

\* doWatchNamespace up to its loop: the pod list call
ListPods(listErr) ==
  /\ pc = "doWatchNamespace"
  /\ IF listErr # nil
       THEN /\ pc' = "stopped"
            /\ err' = listErr
            /\ UNCHANGED <<podList, idx, nsIdx>>
       ELSE /\ podList' = cluster.pods[watchNamespaces[nsIdx]]
            /\ err' = err
            /\ IF Len(podList') > 0
                 THEN pc' = "pods" /\ idx' = 1 /\ nsIdx' = nsIdx
                 ELSE /\ pc' = afterNamespace(nsIdx, watchNamespaces)
                      /\ idx' = idx
                      /\ nsIdx' = nsIdx + 1
  /\ UNCHANGED <<problems, sent, now, start, config, send, nodeLocals, cluster, cycle, history>>

\* one iteration of the loop of doWatchNamespace
WatchPod(sendErr, failAt) ==
  /\ pc = "pods"
  /\ LET pod == podList[idx]
         problem == podProblem(pod, now)
     IN  \E order \in Orders({id \in DOMAIN problems : podMatches(problems[id], pod)}) :
           LET r == IF problem # nilProblem
                      THEN reportProblem(problems, sent, problem, sendErr)
                      ELSE resolveEach(problems, sent, order, 1, failAt)
           IN  /\ problems' = r.problems
               /\ sent' = r.sent
               /\ IF r.err # nil
                    THEN pc' = "stopped" /\ err' = r.err /\ UNCHANGED <<idx, nsIdx>>
                  ELSE IF idx < Len(podList)
                    THEN pc' = "pods" /\ err' = err /\ idx' = idx + 1 /\ nsIdx' = nsIdx
                  ELSE /\ pc' = afterNamespace(nsIdx, watchNamespaces)
                       /\ err' = err
                       /\ idx' = idx
                       /\ nsIdx' = nsIdx + 1
  /\ UNCHANGED <<now, start, config, send, nodeLocals, podList, cluster, cycle>>

\* a sweep that spares the records that were reported
cleanupUnreported(p, t) ==
  [id \in {k \in DOMAIN p : ~(t - p[k].occured > staleAge) \/ p[k].reported} |-> p[id]]

\* "Cleanup old problems": the records the sweep keeps at time t
cleanup(p, t) == [id \in {k \in DOMAIN p : ~(t - p[k].occured > staleAge)} |-> p[id]]

\* the end of an iteration: the sleep for the rest of the interval, the sweep,
\* and start := time.Now() of the next iteration; work is the time the
\* iteration took before the sleep
SleepAndCleanup(work) ==
  /\ pc = "sleep"
  /\ LET elapsed == (now + work) - start
         wait == defaultInterval - elapsed
         woken == IF wait > 0 THEN now + work + wait ELSE now + work
     IN  /\ now' = woken
         /\ start' = woken
         /\ problems' = cleanup(problems, woken)
  /\ pc' = loopHead(watchNodes, watchNamespaces)
  /\ idx' = 1
  /\ nsIdx' = 1
  /\ cycle' = cycle + 1
  /\ UNCHANGED <<sent, err, config, send, nodeLocals, podList, cluster, history>>

(* ------------------------------------------------------------------ *)
(* The cluster the runner watches                                     *)
(* ------------------------------------------------------------------ *)

condition(type, status, message) == [type |-> type, status |-> status, message |-> message]

readyCondition == condition(NodeReady, ConditionTrue, "kubelet is posting ready status")
notReadyCondition == condition(NodeReady, ConditionUnknown, "Kubelet stopped posting node status")
noDiskPressure == condition("DiskPressure", ConditionFalse, "kubelet has no disk pressure")
diskPressure == condition("DiskPressure", ConditionTrue, "kubelet has disk pressure")

healthyConditions == <<noDiskPressure, readyCondition>>
diskPressureConditions == <<diskPressure, readyCondition>>
notReadyConditions == <<noDiskPressure, notReadyCondition>>

nodeSnapshot(name, conditions) ==
  [name |-> name, kind |-> resourceKindNode, conditions |-> conditions,
   cpuCapacity |-> 100, memCapacity |-> 100]

usageSample(cpu, memory) == [cpu |-> cpu, memory |-> memory]

metricsUnavailable == [err |-> "metrics unavailable", items |-> EmptyMap]
metricsOf(items) == [err |-> nil, items |-> items]

containerStatus(state, reason, signal, exitCode, ready, lastTerminated) ==
  [state |-> state, reason |-> reason, signal |-> signal, exitCode |-> exitCode,
   ready |-> ready, lastTerminated |-> lastTerminated]

termination(finishedAt, exitCode, reason) ==
  [finishedAt |-> finishedAt, exitCode |-> exitCode, reason |-> reason]

podSnapshot(name, namespace, phase, containerStatuses) ==
  [name |-> name, namespace |-> namespace, phase |-> phase, reason |-> "",
   deleted |-> FALSE, initContainers |-> 0, initContainerStatuses |-> <<>>,
   containerStatuses |-> containerStatuses]

runningPod(name, namespace) ==
  podSnapshot(name, namespace, "Running",
    <<containerStatus("running", "", 0, 0, TRUE, noTermination)>>)

\* running again after a container exited with code 1 at time finishedAt
restartedPod(name, namespace, finishedAt) ==
  podSnapshot(name, namespace, "Running",
    <<containerStatus("running", "", 0, 0, TRUE, termination(finishedAt, 1, "Error"))>>)

crashLoopPod(name, namespace, finishedAt) ==
  podSnapshot(name, namespace, "Running",
    <<containerStatus("waiting", "CrashLoopBackOff", 0, 0, FALSE,
        termination(finishedAt, 1, "Error"))>>)

pendingPod(name, namespace) == podSnapshot(name, namespace, "Pending", <<>>)

creatingPod(name, namespace) ==
  podSnapshot(name, namespace, "Pending",
    <<containerStatus("waiting", "ContainerCreating", 0, 0, FALSE, noTermination)>>)

\* the clusters of the specifications: one node n1, one pod p1 in namespace default
NodeStates ==
  {nodeSnapshot("n1", c) :
     c \in {healthyConditions, diskPressureConditions}}

MetricsStates ==
  {metricsUnavailable}
    \cup {metricsOf([n \in {"n1"} |-> usageSample(cpu, memory)]) :
            cpu \in {50, 95}, memory \in {50}}

PodStates ==
  {runningPod("p1", "default"), restartedPod("p1", "default", 0),
   crashLoopPod("p1", "default", 0)}

Clusters ==
  {[metrics |-> m, nodes |-> <<n>>, pods |-> [ns \in {"default"} |-> pods]] :
     m \in MetricsStates, n \in NodeStates,
     pods \in {<<>>} \cup {<<p>> : p \in PodStates}}

\* the API objects change between two iterations of Start
ClusterChanges(clusters) ==
  /\ pc = loopHead(watchNodes, watchNamespaces)
  /\ cluster' \in clusters \ {cluster}
  /\ UNCHANGED <<problems, sent, now, pc, start, err, config, send, nodeLocals, idx, nsIdx,
                 podList, cycle, history>>

(* ------------------------------------------------------------------ *)
(* Specifications                                                     *)
(* ------------------------------------------------------------------ *)

\* the state NewRunner leaves, Start about to begin its first iteration
InitRunner(nodes, namespaces) ==
  /\ problems = EmptyMap
  /\ sent = EmptyBag
  /\ now = 0
  /\ start = 0
  /\ err = nil
  /\ watchNodes = nodes
  /\ watchNamespaces = namespaces
  /\ pc = loopHead(nodes, namespaces)
  /\ nodeMetricsAvailable = FALSE
  /\ nodeMetricsMap = EmptyMap
  /\ nodeList = <<>>
  /\ podList = <<>>
  /\ idx = 1
  /\ nsIdx = 1
  /\ cycle = 1
  /\ history = EmptyMap
  /\ send = notCalled

Errors(e) == {nil, e}

\* Spec: nodes and namespace default watched, the cluster changes freely
\* between iterations, an iteration takes no time or SlowCycle seconds
Init == InitRunner(TRUE, <<"default">>) /\ cluster \in Clusters

Changed == cycle <= MaxCycles /\ ClusterChanges(Clusters)

NodesListed ==
  /\ cycle <= MaxCycles
  /\ \E listErr \in Errors(listNodesError) : ListNodes(listErr)

NodeWatched ==
  /\ cycle <= MaxCycles
  /\ \E sendErr \in Errors(sendError), failAt \in 0..Cardinality(DOMAIN problems) :
       WatchNode(sendErr, failAt)
  /\ UNCHANGED history

PodsListed ==
  /\ cycle <= MaxCycles
  /\ \E listErr \in Errors(listPodsError) : ListPods(listErr)

PodWatched ==
  /\ cycle <= MaxCycles
  /\ \E sendErr \in Errors(sendError), failAt \in 0..Cardinality(DOMAIN problems) :
       WatchPod(sendErr, failAt)
  /\ UNCHANGED history

Slept ==
  /\ cycle <= MaxCycles
  /\ \E work \in {0, SlowCycle} : SleepAndCleanup(work)

Next == Changed \/ NodesListed \/ NodeWatched \/ PodsListed \/ PodWatched \/ Slept

Spec == Init /\ [][Next]_vars

\* SpecSteady: the same runner over a cluster that does not change, every
\* iteration doing its work within the interval; history is kept
SteadyNodeStates ==
  {nodeSnapshot("n1", c) :
     c \in {healthyConditions, diskPressureConditions, notReadyConditions}}

SteadyMetricsStates ==
  {metricsUnavailable, metricsOf(EmptyMap)}
    \cup {metricsOf([n \in {"n1"} |-> usageSample(cpu, memory)]) :
            cpu \in {50, 95}, memory \in {50, 95}}

SteadyPodStates ==
  {runningPod("p1", "default"), restartedPod("p1", "default", 0),
   restartedPod("p1", "default", -2700),
   crashLoopPod("p1", "default", 0), pendingPod("p1", "default")}

SteadyClusters ==
  {[metrics |-> m, nodes |-> <<n>>, pods |-> [ns \in {"default"} |-> pods]] :
     m \in SteadyMetricsStates, n \in SteadyNodeStates,
     pods \in {<<>>} \cup {<<p>> : p \in SteadyPodStates}}

InitSteady == InitRunner(TRUE, <<"default">>) /\ cluster \in SteadyClusters

SteadyNodesListed ==
  /\ cycle <= MaxSteadyCycles
  /\ \E listErr \in Errors(listNodesError) : ListNodes(listErr)

SteadyNodeWatched ==
  /\ cycle <= MaxSteadyCycles
  /\ \E sendErr \in Errors(sendError), failAt \in 0..Cardinality(DOMAIN problems) :
       WatchNode(sendErr, failAt)
  /\ LogNode

SteadyPodsListed ==
  /\ cycle <= MaxSteadyCycles
  /\ \E listErr \in Errors(listPodsError) : ListPods(listErr)

SteadyPodWatched ==
  /\ cycle <= MaxSteadyCycles
  /\ \E sendErr \in Errors(sendError), failAt \in 0..Cardinality(DOMAIN problems) :
       WatchPod(sendErr, failAt)
  /\ LogPod

SteadySlept == cycle <= MaxSteadyCycles /\ SleepAndCleanup(0)

NextSteady ==
  SteadyNodesListed \/ SteadyNodeWatched \/ SteadyPodsListed \/ SteadyPodWatched
    \/ SteadySlept

SpecSteady == InitSteady /\ [][NextSteady]_vars

\* SpecPod: only namespace default watched, holding one pod that is in
\* CrashLoopBackOff or runs without a recent restart, as the cluster likes;
\* every iteration does its work within the interval; history is kept
PodClusters ==
  {[metrics |-> metricsUnavailable, nodes |-> <<>>,
    pods |-> [ns \in {"default"} |-> <<p>>]] :
     p \in {runningPod("p1", "default"), crashLoopPod("p1", "default", -7200)}}

InitPod == InitRunner(FALSE, <<"default">>) /\ cluster \in PodClusters

OnePodChanged == cycle <= MaxPodCycles /\ ClusterChanges(PodClusters)

OnePodListed ==
  /\ cycle <= MaxPodCycles
  /\ \E listErr \in Errors(listPodsError) : ListPods(listErr)

OnePodWatched ==
  /\ cycle <= MaxPodCycles
  /\ \E sendErr \in Errors(sendError), failAt \in 0..Cardinality(DOMAIN problems) :
       WatchPod(sendErr, failAt)
  /\ LogPod

OnePodSlept == cycle <= MaxPodCycles /\ SleepAndCleanup(0)

NextPod == OnePodChanged \/ OnePodListed \/ OnePodWatched \/ OnePodSlept

SpecPod == InitPod /\ [][NextPod]_vars

\* SpecNode: only the nodes watched, one node whose conditions and usage
\* sample change freely between iterations; every iteration does its work
\* within the interval
NodeClusters ==
  {[metrics |-> m, nodes |-> <<n>>, pods |-> EmptyMap] :
     m \in SteadyMetricsStates, n \in SteadyNodeStates}

InitNode == InitRunner(TRUE, <<>>) /\ cluster \in NodeClusters

OneNodeChanged == cycle <= MaxNodeCycles /\ ClusterChanges(NodeClusters)

OneNodeListed ==
  /\ cycle <= MaxNodeCycles
  /\ \E listErr \in Errors(listNodesError) : ListNodes(listErr)

OneNodeWatched ==
  /\ cycle <= MaxNodeCycles
  /\ \E sendErr \in Errors(sendError), failAt \in 0..Cardinality(DOMAIN problems) :
       WatchNode(sendErr, failAt)
  /\ UNCHANGED history

OneNodeSlept == cycle <= MaxNodeCycles /\ SleepAndCleanup(0)

NextNode == OneNodeChanged \/ OneNodeListed \/ OneNodeWatched \/ OneNodeSlept

SpecNode == InitNode /\ [][NextNode]_vars

\* SpecStatus: only namespace default watched, holding one pod p1 whose
\* init containers, containers, status reason and deletion timestamp are any
\* of the ones below; the cluster does not change
InitContainerStates ==
  {containerStatus("terminated", "Completed", 0, 0, FALSE, noTermination),
   containerStatus("terminated", "", 9, 1, FALSE, noTermination),
   containerStatus("terminated", "", 0, 1, FALSE, noTermination),
   containerStatus("terminated", "Error", 0, 1, FALSE, noTermination),
   containerStatus("waiting", "PodInitializing", 0, 0, FALSE, noTermination),
   containerStatus("waiting", "ImagePullBackOff", 0, 0, FALSE, noTermination)}

ContainerStates ==
  {containerStatus("running", "", 0, 0, TRUE, noTermination),
   containerStatus("running", "", 0, 0, FALSE, noTermination),
   containerStatus("terminated", "Completed", 0, 0, FALSE, noTermination),
   containerStatus("waiting", "CrashLoopBackOff", 0, 0, FALSE, noTermination)}

SeqsUpTo(S, lo, hi) == UNION {[1..n -> S] : n \in lo..hi}

statusPod(name, namespace, reason, deleted, initStatuses, statuses) ==
  [name |-> name, namespace |-> namespace, phase |-> "Pending", reason |-> reason,
   deleted |-> deleted, initContainers |-> Len(initStatuses),
   initContainerStatuses |-> initStatuses, containerStatuses |-> statuses]

StatusPods ==
  {statusPod("p1", "default", rd[1], rd[2], inits, containers) :
     rd \in {<<"", FALSE>>, <<"", TRUE>>, <<NodeUnreachablePodReason, TRUE>>},
     inits \in SeqsUpTo(InitContainerStates, 0, MaxInitContainers),
     containers \in SeqsUpTo(ContainerStates, 1, MaxContainers)}

StatusClusters ==
  {[metrics |-> metricsUnavailable, nodes |-> <<>>,
    pods |-> [ns \in {"default"} |-> <<p>>]] : p \in StatusPods}

InitStatus == InitRunner(FALSE, <<"default">>) /\ cluster \in StatusClusters

StatusPodsListed ==
  /\ cycle <= MaxStatusCycles
  /\ \E listErr \in Errors(listPodsError) : ListPods(listErr)

StatusPodWatched ==
  /\ cycle <= MaxStatusCycles
  /\ \E sendErr \in Errors(sendError), failAt \in 0..Cardinality(DOMAIN problems) :
       WatchPod(sendErr, failAt)
  /\ UNCHANGED history

StatusSlept == cycle <= MaxStatusCycles /\ SleepAndCleanup(0)

NextStatus == StatusPodsListed \/ StatusPodWatched \/ StatusSlept

SpecStatus == InitStatus /\ [][NextStatus]_vars

\* SpecStartUp: node n1 and namespace default watched; the node, without
\* condition problem, is at 95% cpu until its load passes, and pod p1 is
\* pending or creating its container until it runs; neither goes back. Every
\* iteration does its work within the interval; history is kept
StartUpClusters ==
  {[metrics |-> metricsOf([n \in {"n1"} |-> usageSample(cpu, 50)]),
    nodes |-> <<nodeSnapshot("n1", healthyConditions)>>,
    pods |-> [ns \in {"default"} |-> <<p>>]] :
     cpu \in {50, 95},
     p \in {pendingPod("p1", "default"), creatingPod("p1", "default"),
            runningPod("p1", "default")}}

loadPassed(c) == ~usageHigh(c.metrics.items["n1"].cpu, c.nodes[1].cpuCapacity)

podStarted(c) == c.pods["default"][1] = runningPod("p1", "default")

InitStartUp == InitRunner(TRUE, <<"default">>) /\ cluster \in StartUpClusters

StartUpChanged ==
  /\ cycle <= MaxStartUpCycles
  /\ ClusterChanges({c \in StartUpClusters :
                       /\ loadPassed(cluster) => loadPassed(c)
                       /\ podStarted(cluster) => podStarted(c)})

StartUpNodesListed ==
  /\ cycle <= MaxStartUpCycles
  /\ \E listErr \in Errors(listNodesError) : ListNodes(listErr)

StartUpNodeWatched ==
  /\ cycle <= MaxStartUpCycles
  /\ \E sendErr \in Errors(sendError), failAt \in 0..Cardinality(DOMAIN problems) :
       WatchNode(sendErr, failAt)
  /\ LogNode

StartUpPodsListed ==
  /\ cycle <= MaxStartUpCycles
  /\ \E listErr \in Errors(listPodsError) : ListPods(listErr)

StartUpPodWatched ==
  /\ cycle <= MaxStartUpCycles
  /\ \E sendErr \in Errors(sendError), failAt \in 0..Cardinality(DOMAIN problems) :
       WatchPod(sendErr, failAt)
  /\ LogPod

StartUpSlept == cycle <= MaxStartUpCycles /\ SleepAndCleanup(0)

NextStartUp ==
  StartUpChanged \/ StartUpNodesListed \/ StartUpNodeWatched \/ StartUpPodsListed
    \/ StartUpPodWatched \/ StartUpSlept

SpecStartUp == InitStartUp /\ [][NextStartUp]_vars

\* SpecNamespaces: node n1 and the namespaces default and kube-system
\* watched, each namespace empty or holding one pod p1, running or in
\* CrashLoopBackOff; the cluster does not change
podsOf(namespace, what) ==
  IF what = "running" THEN <<runningPod("p1", namespace)>>
  ELSE IF what = "crashLoop" THEN <<crashLoopPod("p1", namespace, 0)>>
  ELSE <<>>

NamespaceClusters ==
  {[metrics |-> metricsOf([n \in {"n1"} |-> usageSample(50, 50)]),
    nodes |-> <<nodeSnapshot("n1", c)>>,
    pods |-> [ns \in {"default", "kube-system"} |->
                podsOf(ns, IF ns = "default" THEN first ELSE second)]] :
     c \in {healthyConditions, diskPressureConditions},
     first \in {"none", "running", "crashLoop"},
     second \in {"none", "running", "crashLoop"}}

InitNamespaces ==
  InitRunner(TRUE, <<"default", "kube-system">>) /\ cluster \in NamespaceClusters

NamespacesNodesListed ==
  /\ cycle <= MaxNamespaceCycles
  /\ \E listErr \in Errors(listNodesError) : ListNodes(listErr)

NamespacesNodeWatched ==
  /\ cycle <= MaxNamespaceCycles
  /\ \E sendErr \in Errors(sendError), failAt \in 0..Cardinality(DOMAIN problems) :
       WatchNode(sendErr, failAt)
  /\ UNCHANGED history

NamespacesPodsListed ==
  /\ cycle <= MaxNamespaceCycles
  /\ \E listErr \in Errors(listPodsError) : ListPods(listErr)

NamespacesPodWatched ==
  /\ cycle <= MaxNamespaceCycles
  /\ \E sendErr \in Errors(sendError), failAt \in 0..Cardinality(DOMAIN problems) :
       WatchPod(sendErr, failAt)
  /\ UNCHANGED history

NamespacesSlept == cycle <= MaxNamespaceCycles /\ SleepAndCleanup(0)

NextNamespaces ==
  NamespacesNodesListed \/ NamespacesNodeWatched \/ NamespacesPodsListed
    \/ NamespacesPodWatched \/ NamespacesSlept

SpecNamespaces == InitNamespaces /\ [][NextNamespaces]_vars

\* SpecClassify: only namespace default watched, holding one pod p1 in phase
\* Running or Pending, with or without a failed init container and deletion
\* timestamp, whose containers run after a last termination or none, wait in
\* CrashLoopBackOff or have completed; the cluster does not change
lastTerminations ==
  {noTermination, termination(-100, 1, "Error"), termination(-100, 0, "Completed"),
   termination(-restartWindow, 2, "OOMKilled"), termination(-restartWindow - 1, 1, "Error")}

ClassifyContainerStates ==
  {containerStatus("running", "", 0, 0, TRUE, last) : last \in lastTerminations}
    \cup {containerStatus("waiting", "CrashLoopBackOff", 0, 0, FALSE,
            termination(-100, 1, "Error")),
          containerStatus("terminated", "Completed", 0, 0, FALSE, noTermination)}

classifyPod(name, namespace, phase, deleted, initStatuses, statuses) ==
  [name |-> name, namespace |-> namespace, phase |-> phase, reason |-> "",
   deleted |-> deleted, initContainers |-> Len(initStatuses),
   initContainerStatuses |-> initStatuses, containerStatuses |-> statuses]

ClassifyPods ==
  {classifyPod("p1", "default", phase, deleted, inits, containers) :
     phase \in {"Running", "Pending"}, deleted \in BOOLEAN,
     inits \in {<<>>, <<containerStatus("terminated", "Error", 0, 1, FALSE, noTermination)>>},
     containers \in SeqsUpTo(ClassifyContainerStates, 1, MaxContainers)}

ClassifyClusters ==
  {[metrics |-> metricsUnavailable, nodes |-> <<>>,
    pods |-> [ns \in {"default"} |-> <<p>>]] : p \in ClassifyPods}

InitClassify == InitRunner(FALSE, <<"default">>) /\ cluster \in ClassifyClusters

ClassifyPodsListed ==
  /\ cycle <= MaxClassifyCycles
  /\ \E listErr \in Errors(listPodsError) : ListPods(listErr)

ClassifyPodWatched ==
  /\ cycle <= MaxClassifyCycles
  /\ \E sendErr \in Errors(sendError), failAt \in 0..Cardinality(DOMAIN problems) :
       WatchPod(sendErr, failAt)
  /\ UNCHANGED history

ClassifySlept == cycle <= MaxClassifyCycles /\ SleepAndCleanup(0)

NextClassify == ClassifyPodsListed \/ ClassifyPodWatched \/ ClassifySlept

SpecClassify == InitClassify /\ [][NextClassify]_vars

\* SpecUsage: only the nodes watched, one node n1 with or without disk
\* pressure, with cpu and memory capacity 20 or 100 and a usage sample around
\* 95% of either; the cluster changes freely between iterations
usageNode(name, conditions, capacity) ==
  [name |-> name, kind |-> resourceKindNode, conditions |-> conditions,
   cpuCapacity |-> capacity, memCapacity |-> capacity]

UsageClusters ==
  {[metrics |-> metricsOf([n \in {"n1"} |-> usageSample(cpu, memory)]),
    nodes |-> <<usageNode("n1", c, capacity)>>, pods |-> EmptyMap] :
     cpu \in {18, 19, 94, 95}, memory \in {18, 19, 94, 95}, capacity \in {20, 100},
     c \in {healthyConditions, diskPressureConditions}}

InitUsage == InitRunner(TRUE, <<>>) /\ cluster \in UsageClusters

UsageChanged == cycle <= MaxUsageCycles /\ ClusterChanges(UsageClusters)

UsageNodesListed ==
  /\ cycle <= MaxUsageCycles
  /\ \E listErr \in Errors(listNodesError) : ListNodes(listErr)

UsageNodeWatched ==
  /\ cycle <= MaxUsageCycles
  /\ \E sendErr \in Errors(sendError), failAt \in 0..Cardinality(DOMAIN problems) :
       WatchNode(sendErr, failAt)
  /\ UNCHANGED history

UsageSlept == cycle <= MaxUsageCycles /\ SleepAndCleanup(0)

NextUsage == UsageChanged \/ UsageNodesListed \/ UsageNodeWatched \/ UsageSlept

SpecUsage == InitUsage /\ [][NextUsage]_vars

\* SpecSend: one call of SendMessage. The network lets the first attempts
\* fail with errors of a broken connection, up to MaxOutage of them or all,
\* and answers the attempt after them with nil or an error of the Slack API
forever == -1

transientErrors ==
  {"telnet: Connection closed by foreign host",
   "Post https://slack.com/api/chat.postMessage: net/http: TLS handshake timeout",
   "dial tcp 3.120.1.1:443: i/o timeout",
   "read tcp 10.0.0.1:443: connection timed out"}

finalAnswers ==
  {nil, "channel_not_found", "invalid_auth", "dial tcp 3.120.1.1:443: connection refused"}

InitSend ==
  /\ InitRunner(FALSE, <<>>)
  /\ cluster = [metrics |-> metricsUnavailable, nodes |-> <<>>, pods |-> EmptyMap]

SendIsCalled == \E outage \in 0..MaxOutage \cup {forever} : SendCalled(outage)

MessagePosted ==
  \E e \in IF send.outage = 0 THEN finalAnswers ELSE transientErrors : Posted(e)

SendReturned == Returned

NextSend == SendIsCalled \/ MessagePosted \/ SendReturned

SpecSend == InitSend /\ [][NextSend]_vars

\* the goroutine in SendMessage keeps running, and PostMessage answers
SpecSendFair == SpecSend /\ WF_vars(MessagePosted) /\ WF_vars(SendReturned)

(* ------------------------------------------------------------------ *)
(* What the claims speak of                                           *)
(* ------------------------------------------------------------------ *)

RECURSIVE copies(_, _)
copies(bag, S) ==
  IF S = {} THEN 0 ELSE LET m == CHOOSE x \in S : TRUE IN bag[m] + copies(bag, S \ {m})

\* messages of kind op ("report", "resolve") in the channel for the record id
Count(bag, op, id) ==
  copies(bag, {m \in DOMAIN bag : m.op = op /\ m.id = id})

\* the same for the one lifetime of id that began at time t
CountLife(bag, op, id, t) ==
  copies(bag, {m \in DOMAIN bag : m.op = op /\ m.id = id /\ m.occured = t})

theNode == resourceOf(resourceKindNode, "n1", "")
thePod == resourceOf(resourceKindPod, "p1", "default")

runsOf(res) == IF res \in DOMAIN history THEN history[res] ELSE <<>>

cpuId == cpuProblem(nodeSnapshot("n1", healthyConditions), 0).id
podStatusId == podKey(runningPod("p1", "default"), problemTypePodStatus)
podRestartsId == podKey(runningPod("p1", "default"), problemTypePodRestarts)
podPendingId == podKey(runningPod("p1", "default"), problemTypePodPending)

(* ------------------------------------------------------------------ *)
(* C1                                                                 *)
(* ------------------------------------------------------------------ *)

\* C1: while node n1 has been classified as under CPU pressure in every
\* cycle since Start began (N cycles so far, iterations 10 seconds apart) and
\* no Send failed, the channel holds no report for it when N < 10 and exactly
\* one when N >= 10.
C1_ReportedExactlyOnce ==
  (/\ err = nil
   /\ Len(runsOf(theNode)) = 1
   /\ runsOf(theNode)[1].id = cpuId
   /\ runsOf(theNode)[1].handled = "report")
    => Count(sent, "report", cpuId)
         = IF runsOf(theNode)[1].count >= nodeResourcePressureReportAt THEN 1 ELSE 0

(* ------------------------------------------------------------------ *)
(* C2                                                                 *)
(* ------------------------------------------------------------------ *)

lastRun(res) == runsOf(res)[Len(runsOf(res))]

\* C2: a resolve message for the PodStatus record of pod p1 is sent, and the
\* record leaves the registry in a pod step, only in a step that completes
\* at least 10 cycles in a row in which the pod yielded no problem.
C2_ResolvedOnlyAfterTenQuietCycles ==
  [][(\/ Count(sent', "resolve", podStatusId) > Count(sent, "resolve", podStatusId)
      \/ /\ pc = "pods"
         /\ podStatusId \in DOMAIN problems
         /\ podStatusId \notin DOMAIN problems')
       => /\ lastRun(thePod)'.id = ""
          /\ lastRun(thePod)'.count >= podStatusResolveAt]_vars

(* ------------------------------------------------------------------ *)
(* C3                                                                 *)
(* ------------------------------------------------------------------ *)

\* the resolve threshold the specification gives each kind
resolveThresholdOf(type) ==
  IF type = problemTypeNodeResourcePressure THEN nodeResourcePressureResolveAt
  ELSE IF type = problemTypePodStatus THEN podStatusResolveAt
  ELSE IF type = problemTypePodPending THEN podPendingResolveAt
  ELSE 1

Max(S) == CHOOSE x \in S : \A y \in S : y <= x

\* the time of the latest cycle in which the live record id was detected
lastDetected(id) ==
  LET runs == runsOf(resourceOf(problems[id].kind, problems[id].name, problems[id].namespace))
  IN  Max({runs[i].last : i \in {j \in DOMAIN runs : runs[j].id = id /\ runs[j].handled = "report"}})

\* C3: a record leaves the registry only in a step in which its resolution
\* counter reaches its kind's resolve threshold, or at a time more than 30
\* minutes after the latest cycle that detected its problem.
C3_RemovedOnlyResolvedOrUnseen ==
  [][\A id \in DOMAIN problems :
       id \notin DOMAIN problems'
         => \/ /\ pc \in {"nodes", "pods"}
               /\ problems[id].resolvedCounter + 1 >= resolveThresholdOf(problems[id].problemType)
            \/ now' - lastDetected(id) > staleAge]_vars

(* ------------------------------------------------------------------ *)
(* C4                                                                 *)
(* ------------------------------------------------------------------ *)

diskId == conditionProblem(nodeSnapshot("n1", diskPressureConditions), diskPressure, 0).id

hasDiskPressure(node) == \E i \in DOMAIN node.conditions : node.conditions[i] = diskPressure

\* C4: whatever the metrics are, a node step that finds DiskPressure=True
\* while no record of it exists sends one report message for it, and a node
\* step that finds no condition problem while the reported record exists
\* sends one resolve message for it and removes the record (steps in which
\* Send fails aside).
C4_DiskPressureReportedAndResolved ==
  [][(pc = "nodes" /\ pc' # "stopped")
       => /\ (hasDiskPressure(nodeList[idx]) /\ diskId \notin DOMAIN problems)
               => Count(sent', "report", diskId) = Count(sent, "report", diskId) + 1
          /\ (/\ isNodeProblem(nodeList[idx], now) = nilProblem
              /\ diskId \in DOMAIN problems
              /\ problems[diskId].reported)
               => /\ Count(sent', "resolve", diskId) = Count(sent, "resolve", diskId) + 1
                  /\ diskId \notin DOMAIN problems']_vars

(* ------------------------------------------------------------------ *)
(* C5                                                                 *)
(* ------------------------------------------------------------------ *)

occuredCounterOf(p, id) == IF id \in DOMAIN p THEN p[id].occuredCounter ELSE 0

\* C5: a node step of a cycle without node metrics returns no error, builds
\* no NodeResourcePressure descriptor, counts a detection for the node's
\* condition problem if it has one, and otherwise advances (or removes) every
\* live record of the node.
C5_ConditionsHandledWithoutMetrics ==
  [][(pc = "nodes" /\ ~nodeMetricsAvailable)
       => LET node == nodeList[idx]
              problem == isNodeProblem(node, now)
          IN  /\ pc' # "stopped"
              /\ nodeProblem(node, nodeMetricsAvailable, nodeMetricsMap, now).problemType
                   # problemTypeNodeResourcePressure
              /\ problem # nilProblem
                   => occuredCounterOf(problems', problem.id)
                        = occuredCounterOf(problems, problem.id) + 1
              /\ problem = nilProblem
                   => \A id \in DOMAIN problems :
                        nodeMatches(problems[id], node)
                          => \/ id \notin DOMAIN problems'
                             \/ problems'[id].resolvedCounter
                                  = problems[id].resolvedCounter + 1]_vars

(* ------------------------------------------------------------------ *)
(* C6                                                                 *)
(* ------------------------------------------------------------------ *)

\* C6: the sweep at the end of an iteration removes every record whose
\* timestamp is then more than 30 minutes old, reported or not, and puts no
\* message into the channel.
C6_SweepIsSilent ==
  [][pc = "sleep"
       => /\ sent' = sent
          /\ \A id \in DOMAIN problems :
               now' - problems[id].occured > staleAge => id \notin DOMAIN problems']_vars

\* a reported record is gone without a resolve message and without an error:
\* the sweep took it
C6_Witness ==
  /\ err = nil
  /\ \E m \in DOMAIN sent :
       /\ m.op = "report"
       /\ CountLife(sent, "resolve", m.id, m.occured) = 0
       /\ m.id \notin DOMAIN problems \/ problems[m.id].occured # m.occured

(* ------------------------------------------------------------------ *)
(* C7                                                                 *)
(* ------------------------------------------------------------------ *)

\* C7: a pod step that yields no descriptor while a PodRestarts record of the
\* pod is live removes that record and, if it was reported, sends one resolve
\* message (steps in which Send fails aside).
C7_RestartResolvedAtOnce ==
  [][(/\ pc = "pods"
      /\ pc' # "stopped"
      /\ podProblem(podList[idx], now) = nilProblem
      /\ podRestartsId \in DOMAIN problems)
       => /\ podRestartsId \notin DOMAIN problems'
          /\ problems[podRestartsId].reported
               => Count(sent', "resolve", podRestartsId)
                    = Count(sent, "resolve", podRestartsId) + 1]_vars

(* ------------------------------------------------------------------ *)
(* C8                                                                 *)
(* ------------------------------------------------------------------ *)

\* C8: a step that leaves a reported record in the registry adds no report
\* message for its id to the channel.
C8_NoSecondReport ==
  [][\A id \in DOMAIN problems :
       (/\ problems[id].reported
        /\ id \in DOMAIN problems'
        /\ problems'[id].occured = problems[id].occured)
         => Count(sent', "report", id) = Count(sent, "report", id)]_vars

\* a PodPending record detected again after the cycle that reported it
C8_Witness ==
  /\ podPendingId \in DOMAIN problems
  /\ problems[podPendingId].reported
  /\ problems[podPendingId].occuredCounter > podPendingReportAt
  /\ Count(sent, "report", podPendingId) = 1

(* ------------------------------------------------------------------ *)
(* C9                                                                 *)
(* ------------------------------------------------------------------ *)

\* the history of pod p1 after its leading quiet cycles
podScenario ==
  LET runs == runsOf(thePod)
  IN  IF Len(runs) >= 1 /\ runs[1].id = "" THEN SubSeq(runs, 2, Len(runs)) ELSE runs

\* C9: with no Send failed, during the first 3 cycles in CrashLoopBackOff of
\* pod p1 the channel holds one report and no resolve message for it; during
\* the healthy cycles that follow the third it holds no resolve message and
\* the record lives up to the 9th, and from the 10th on it holds exactly one
\* resolve message and the record is gone.
C9_CrashLoopScenario ==
  err = nil
    => /\ (/\ Len(podScenario) = 1
           /\ podScenario[1].id = podStatusId
           /\ podScenario[1].count <= 3)
            => /\ Count(sent, "report", podStatusId) = 1
               /\ Count(sent, "resolve", podStatusId) = 0
               /\ podStatusId \in DOMAIN problems
       /\ (/\ Len(podScenario) = 2
           /\ podScenario[1].id = podStatusId
           /\ podScenario[1].count = 3
           /\ podScenario[2].id = "")
            => /\ Count(sent, "report", podStatusId) = 1
               /\ Count(sent, "resolve", podStatusId)
                    = IF podScenario[2].count >= podStatusResolveAt THEN 1 ELSE 0
               /\ podStatusId \in DOMAIN problems
                    <=> podScenario[2].count < podStatusResolveAt

\* the 10th healthy cycle after 3 cycles in CrashLoopBackOff
C9_Witness ==
  /\ err = nil
  /\ Len(podScenario) = 2
  /\ podScenario[1].id = podStatusId
  /\ podScenario[1].count = 3
  /\ podScenario[2].id = ""
  /\ podScenario[2].count = podStatusResolveAt
  /\ Count(sent, "resolve", podStatusId) = 1
  /\ podStatusId \notin DOMAIN problems

(* ------------------------------------------------------------------ *)
(* C10                                                                *)
(* ------------------------------------------------------------------ *)

\* C10: for every live record with reported = TRUE the channel holds at
\* least one report message and no resolve message of that record's lifetime.
C10_ReportedMeansSent ==
  \A id \in DOMAIN problems :
    problems[id].reported
      => /\ CountLife(sent, "report", id, problems[id].occured) >= 1
         /\ CountLife(sent, "resolve", id, problems[id].occured) = 0

(* ------------------------------------------------------------------ *)
(* C11                                                                *)
(* ------------------------------------------------------------------ *)

sameResourceAndType(a, b) ==
  /\ a.problemType = b.problemType
  /\ a.kind = b.kind
  /\ a.name = b.name
  /\ a.namespace = b.namespace

\* C11: no two live records have the same problem type and the same
\* resource (kind, name, namespace).
C11_OneRecordPerTypeAndResource ==
  \A a \in DOMAIN problems : \A b \in DOMAIN problems :
    sameResourceAndType(problems[a], problems[b]) => a = b

(* ------------------------------------------------------------------ *)
(* C12                                                                *)
(* ------------------------------------------------------------------ *)

\* README: "Pods that are not running for more than 30 minutes", in seconds
notRunningLimit == 1800

\* C12: a report message for the PodPending record of pod p1 is in the
\* channel only if the pod has been classified as pending in every cycle for
\* more than 30 minutes up to now, and, no Send having failed, it is there
\* whenever the pod has been so classified for more than 30 minutes.
C12_PendingReportedAfterThirtyMinutes ==
  LET runs == runsOf(thePod)
      pendingFor == IF Len(runs) >= 1 /\ lastRun(thePod).id = podPendingId
                      THEN lastRun(thePod).last - lastRun(thePod).since
                      ELSE 0
  IN  /\ Count(sent, "report", podPendingId) >= 1 => pendingFor > notRunningLimit
      /\ (err = nil /\ pendingFor > notRunningLimit)
           => Count(sent, "report", podPendingId) >= 1

(* ------------------------------------------------------------------ *)
(* C13                                                                *)
(* ------------------------------------------------------------------ *)

\* a step in which sendReportMessage marked a record and its Send put no
\* message into the channel
reportSendFailed ==
  \E id \in DOMAIN problems' :
    /\ problems'[id].reported
    /\ id \notin DOMAIN problems \/ ~problems[id].reported
    /\ Count(sent', "report", id) = Count(sent, "report", id)

\* the reported records a loop step took out of the registry without a
\* resolve message
resolveSendsFailed ==
  {id \in DOMAIN problems :
     /\ pc \in {"nodes", "pods"}
     /\ problems[id].reported
     /\ id \notin DOMAIN problems'
     /\ Count(sent', "resolve", id) = Count(sent, "resolve", id)}

\* C13: a step in which a Send failed, for a report or for a resolve, ends
\* Start with that error, the failed Send being the last thing the step did;
\* and once Start has returned nothing changes any more: no resource is
\* classified, no message is sent, no cycle starts.
C13_SendFailureIsFatal ==
  [][/\ reportSendFailed => (pc' = "stopped" /\ err' = sendError /\ sent' = sent)
     /\ resolveSendsFailed # {}
          => (pc' = "stopped" /\ err' = sendError /\ Cardinality(resolveSendsFailed) = 1)
     /\ pc # "stopped"]_vars

\* Start has returned the error of a failed report
C13_Witness ==
  /\ pc = "stopped"
  /\ err = sendError
  /\ \E id \in DOMAIN problems :
       /\ problems[id].reported
       /\ CountLife(sent, "report", id, problems[id].occured) = 0

(* ------------------------------------------------------------------ *)
(* C14                                                                *)
(* ------------------------------------------------------------------ *)

exitedZero(container) == container.state = "terminated" /\ container.exitCode = 0

\* the positions of the init containers that have not exited with code 0
notInitialized(pod) ==
  {i \in DOMAIN pod.initContainerStatuses : ~exitedZero(pod.initContainerStatuses[i])}

Min(S) == CHOOSE x \in S : \A y \in S : x <= y

\* the containers whose state gives the scan a reason
reasonGivers(pod) ==
  {i \in DOMAIN pod.containerStatuses :
     \/ pod.containerStatuses[i].state = "terminated"
     \/ (pod.containerStatuses[i].state = "waiting" /\ pod.containerStatuses[i].reason # "")}

\* the scan, which goes from the last container to the first, ends on "Completed"
scanEndsCompleted(pod) ==
  /\ reasonGivers(pod) # {}
  /\ pod.containerStatuses[Min(reasonGivers(pod))].reason = "Completed"

hasReadyRunning(pod) ==
  \E i \in DOMAIN pod.containerStatuses :
    pod.containerStatuses[i].ready /\ pod.containerStatuses[i].state = "running"

statusPrecedence(pod) ==
  LET status == GetPodStatus(pod)
  IN  /\ notInitialized(pod) # {}
           => LET i == Min(notInitialized(pod))
                  container == pod.initContainerStatuses[i]
              IN  /\ status = initStatus(container, i - 1, pod.initContainers)
                  /\ (/\ container.state = "terminated"
                      /\ container.reason = ""
                      /\ container.signal # 0)
                       => status = "Init:Signal:" \o ToString(container.signal)
      /\ (notInitialized(pod) = {} /\ scanEndsCompleted(pod) /\ hasReadyRunning(pod))
           => status = "Running"

\* C14 as stated: for the pod the loop of doWatchNamespace is at, the status
\* is the Init:* string of the first init container that has not exited with
\* code 0 if there is one, whatever the containers are ("Init:Signal:s" for
\* one terminated by signal s with no reason, even with a non-zero exit
\* code), and it is "Running" if all init containers exited with code 0, the
\* container scan ends on "Completed" and a container is ready and running.
C14_StatusPrecedence ==
  pc = "pods" => statusPrecedence(podList[idx])

\* C14 amended: the same for a pod that has no deletion timestamp.
C14_StatusPrecedenceUndeleted ==
  (pc = "pods" /\ ~podList[idx].deleted) => statusPrecedence(podList[idx])

\* the record of a pod whose first init container was killed by signal 9 with
\* exit code 1: its message carries the status Init:Signal:9
C14_Witness ==
  /\ podPendingId \in DOMAIN problems
  /\ \E pod \in StatusPods :
       /\ ~pod.deleted
       /\ notInitialized(pod) # {}
       /\ pod.initContainerStatuses[Min(notInitialized(pod))].exitCode # 0
       /\ pod.containerStatuses[1].state = "running"
       /\ cluster.pods["default"] = <<pod>>
       /\ problems[podPendingId].message
            = podPendingProblem(pod, "Init:Signal:9", 0).message

(* ------------------------------------------------------------------ *)
(* C15                                                                *)
(* ------------------------------------------------------------------ *)

\* C15: a pod step that yields a descriptor (a reportProblem call) leaves the
\* record of its id with the occurrence counter one higher than before (1
\* for a new record) and with the resolution counter at 0.
C15_DetectionResetsResolution ==
  [][(pc = "pods" /\ podProblem(podList[idx], now) # nilProblem)
       => LET id == podProblem(podList[idx], now).id
          IN  /\ id \in DOMAIN problems'
              /\ problems'[id].occuredCounter = occuredCounterOf(problems, id) + 1
              /\ problems'[id].resolvedCounter = 0]_vars

(* ------------------------------------------------------------------ *)
(* C16                                                                *)
(* ------------------------------------------------------------------ *)

\* C16: in a cycle with node metrics, a node step for a node that has a
\* condition problem leaves the loop's if-chain with a NodeCondition
\* descriptor, counts one detection for that descriptor's record and touches
\* no other record, whatever the usage sample is; and a NodeResourcePressure
\* descriptor comes only from a node without condition problem.
C16_ConditionProblemWins ==
  [][(pc = "nodes" /\ nodeMetricsAvailable)
       => LET node == nodeList[idx]
              found == isNodeProblem(node, now)
              produced == nodeProblem(node, nodeMetricsAvailable, nodeMetricsMap, now)
          IN  /\ found # nilProblem
                   => /\ produced.problemType = problemTypeNodeCondition
                      /\ occuredCounterOf(problems', found.id)
                           = occuredCounterOf(problems, found.id) + 1
                      /\ \A id \in DOMAIN problems' \ {found.id} :
                           id \in DOMAIN problems /\ problems'[id] = problems[id]
              /\ produced.problemType = problemTypeNodeResourcePressure
                   => found = nilProblem]_vars

(* ------------------------------------------------------------------ *)
(* C17                                                                *)
(* ------------------------------------------------------------------ *)

missingMetricsId == missingMetricsProblem(nodeSnapshot("n1", healthyConditions), 0).id

\* C17: in a cycle with node metrics, a node step for a node without
\* condition problem and without usage sample counts one detection for the
\* missing-metrics record (creating it if need be), and the step that counts
\* the 10th sends one report message for it unless Send fails.
C17_MissingMetricsTracked ==
  [][(/\ pc = "nodes"
      /\ nodeMetricsAvailable
      /\ nodeList[idx].name \notin DOMAIN nodeMetricsMap
      /\ isNodeProblem(nodeList[idx], now) = nilProblem)
       => /\ occuredCounterOf(problems', missingMetricsId)
               = occuredCounterOf(problems, missingMetricsId) + 1
          /\ (/\ occuredCounterOf(problems', missingMetricsId) = nodeResourcePressureReportAt
              /\ pc' # "stopped")
               => Count(sent', "report", missingMetricsId)
                    = Count(sent, "report", missingMetricsId) + 1]_vars

(* ------------------------------------------------------------------ *)
(* C18                                                                *)
(* ------------------------------------------------------------------ *)

reportedAtOnce ==
  {problemTypeNodeCondition, problemTypePodStatus, problemTypePodRestarts}

\* C18: a live PodPending record is marked reported exactly when its
\* occurrence counter is 30 or more, and a live NodeCondition, PodStatus or
\* PodRestarts record is marked reported from its first detection on; no
\* Send having failed, the channel holds one report message of the record's
\* lifetime when it is marked and none when it is not.
C18_ReportThresholds ==
  \A id \in DOMAIN problems :
    LET problem == problems[id]
        reports == CountLife(sent, "report", id, problem.occured)
    IN  /\ problem.problemType = problemTypePodPending
             => /\ problem.reported <=> problem.occuredCounter >= podPendingReportAt
                /\ err = nil => reports = IF problem.reported THEN 1 ELSE 0
        /\ problem.problemType \in reportedAtOnce
             => /\ problem.occuredCounter >= 1
                /\ problem.reported
                /\ err = nil => reports = 1

\* the cycle of the 30th detection of a pending pod: the report is out
C18_Witness ==
  /\ err = nil
  /\ podPendingId \in DOMAIN problems
  /\ problems[podPendingId].occuredCounter = podPendingReportAt
  /\ problems[podPendingId].reported
  /\ CountLife(sent, "report", podPendingId, problems[podPendingId].occured) = 1

(* ------------------------------------------------------------------ *)
(* C19                                                                *)
(* ------------------------------------------------------------------ *)

\* res was classified with the descriptor id in its first n cycles and
\* without descriptor in all k cycles since
detectedThenQuiet(res, id, n, k) ==
  /\ Len(runsOf(res)) = 2
  /\ runsOf(res)[1].id = id
  /\ runsOf(res)[1].count = n
  /\ runsOf(res)[2].id = ""
  /\ runsOf(res)[2].count = k

\* res was classified with the descriptor id in its first cycles, fewer than
\* reportAt of them, and without descriptor in all cycles since, resolveAt or
\* more of them
unreportedThenQuiet(res, id, reportAt, resolveAt) ==
  /\ Len(runsOf(res)) = 2
  /\ runsOf(res)[1].id = id
  /\ runsOf(res)[1].count < reportAt
  /\ runsOf(res)[2].id = ""
  /\ runsOf(res)[2].count >= resolveAt

\* C19: every resolve message in the channel follows a report message of the
\* same lifetime of its record; and a record that was never marked reported
\* leaves at its resolve threshold without any message: after fewer than 10
\* cycles of cpu pressure on node n1 and then 5 or more cycles without, and
\* after fewer than 30 pending cycles of pod p1 and then 10 or more healthy
\* ones, the record is gone and the channel holds no message for it.
C19_ResolveOnlyForReported ==
  /\ \A msg \in DOMAIN sent :
       msg.op = "resolve" => CountLife(sent, "report", msg.id, msg.occured) >= 1
  /\ unreportedThenQuiet(theNode, cpuId, nodeResourcePressureReportAt,
       nodeResourcePressureResolveAt)
       => /\ cpuId \notin DOMAIN problems
          /\ Count(sent, "report", cpuId) = 0
          /\ Count(sent, "resolve", cpuId) = 0
  /\ unreportedThenQuiet(thePod, podPendingId, podPendingReportAt, podPendingResolveAt)
       => /\ podPendingId \notin DOMAIN problems
          /\ Count(sent, "report", podPendingId) = 0
          /\ Count(sent, "resolve", podPendingId) = 0

\* 9 cycles of cpu pressure, then the 5th cycle without
C19_Witness ==
  /\ detectedThenQuiet(theNode, cpuId, nodeResourcePressureReportAt - 1,
       nodeResourcePressureResolveAt)
  /\ cpuId \notin DOMAIN problems
  /\ Count(sent, "report", cpuId) = 0
  /\ Count(sent, "resolve", cpuId) = 0

(* ------------------------------------------------------------------ *)
(* C20                                                                *)
(* ------------------------------------------------------------------ *)

\* the live records of the resource the loop is at
recordsOfResource ==
  {id \in DOMAIN problems :
     \/ pc = "nodes" /\ nodeMatches(problems[id], nodeList[idx])
     \/ pc = "pods" /\ podMatches(problems[id], podList[idx])}

\* the descriptor the loop body is left with for that resource
descriptorOfResource ==
  IF pc = "nodes"
    THEN nodeProblem(nodeList[idx], nodeMetricsAvailable, nodeMetricsMap, now)
    ELSE podProblem(podList[idx], now)

\* C20: a node or pod step that yields no descriptor, and in which no Send
\* fails, leaves every live record of that resource either removed or with
\* its resolution counter one higher and nothing else changed; a step that
\* yields a descriptor leaves the resource's records of other problem types
\* as they were.
C20_ResolutionAdvancesEveryRecord ==
  [][(pc \in {"nodes", "pods"} /\ pc' # "stopped")
       => /\ descriptorOfResource = nilProblem
               => \A id \in recordsOfResource :
                    \/ id \notin DOMAIN problems'
                    \/ problems'[id] = [problems[id] EXCEPT !.resolvedCounter = @ + 1]
          /\ descriptorOfResource # nilProblem
               => \A id \in recordsOfResource :
                    problems[id].problemType # descriptorOfResource.problemType
                      => id \in DOMAIN problems' /\ problems'[id] = problems[id]]_vars

(* ------------------------------------------------------------------ *)
(* C21                                                                *)
(* ------------------------------------------------------------------ *)

\* C21: the step of doWatchNodes up to its loop either has the node list of
\* the cluster and goes on without error, or ends Start with the list error,
\* registry and channel as they were; the step of doWatchNamespace up to its
\* loop either has the pod list of the namespace and goes on, or ends Start
\* with the list error, registry and channel as they were; and once Start
\* has returned nothing changes any more: no pod of that or a later
\* namespace is classified and no cycle starts.
C21_ListFailureAborts ==
  [][/\ (pc = "doWatchNodes" /\ cluster' = cluster)
          => \/ /\ pc' = "stopped"
                /\ err' = listNodesError
                /\ problems' = problems
                /\ sent' = sent
             \/ /\ pc' # "stopped"
                /\ err' = nil
                /\ nodeList' = cluster.nodes
     /\ (pc = "doWatchNamespace" /\ cluster' = cluster)
          => \/ /\ pc' = "stopped"
                /\ err' = listPodsError
                /\ problems' = problems
                /\ sent' = sent
             \/ /\ pc' # "stopped"
                /\ err' = nil
                /\ podList' = cluster.pods[watchNamespaces[nsIdx]]
     /\ pc # "stopped"]_vars

\* listing the pods of the first namespace failed: the pod in CrashLoopBackOff
\* of the second namespace has no record
C21_Witness ==
  /\ pc = "stopped"
  /\ err = listPodsError
  /\ nsIdx = 1
  /\ cluster.pods["kube-system"] = podsOf("kube-system", "crashLoop")
  /\ podKey(runningPod("p1", "kube-system"), problemTypePodStatus) \notin DOMAIN problems

(* ------------------------------------------------------------------ *)
(* C22                                                                *)
(* ------------------------------------------------------------------ *)

\* the containers of pod whose last termination finished within the last
\* hour before t with a non-zero exit code
failedLately(pod, t) ==
  {i \in DOMAIN pod.containerStatuses :
     LET last == pod.containerStatuses[i].lastTerminated
     IN  /\ last # noTermination
         /\ last.exitCode # 0
         /\ last.finishedAt + restartWindow >= t}

\* what C22 says the classification of pod at time t is
classifiedAsClaimed(pod, t) ==
  LET status == GetPodStatus(pod)
      problem == podProblem(pod, t)
  IN  /\ status \in CriticalStatus => problem.problemType = problemTypePodStatus
      /\ (status \in OkayStatus /\ failedLately(pod, t) # {})
           => /\ problem.problemType = problemTypePodRestarts
              /\ problem.message
                   = podRestartsProblem(pod,
                       pod.containerStatuses[Min(failedLately(pod, t))].lastTerminated,
                       t).message
      /\ (status \in OkayStatus /\ failedLately(pod, t) = {}) => problem = nilProblem
      /\ status \notin (CriticalStatus \cup OkayStatus)
           => problem.problemType = problemTypePodPending
      /\ (pod.deleted \/ notInitialized(pod) # {})
           => problem.problemType = problemTypePodPending

\* C22: a pod step classifies the pod by its status as said (critical set:
\* PodStatus; okay set: PodRestarts, from the first container that failed
\* within the last hour, if there is one, else nothing; any other status,
\* with Terminating and Init:*: PodPending), counts one detection for the
\* record of that descriptor, if any, and for no other record.
C22_OneOutcomePerPod ==
  [][pc = "pods"
       => LET pod == podList[idx]
              problem == podProblem(pod, now)
          IN  /\ classifiedAsClaimed(pod, now)
              /\ \A id \in DOMAIN problems' :
                   occuredCounterOf(problems', id)
                     = occuredCounterOf(problems, id) + IF id = problem.id THEN 1 ELSE 0]_vars

\* the record of a pod with two containers that failed within the last hour:
\* its message is that of the first
C22_Witness ==
  /\ podRestartsId \in DOMAIN problems
  /\ \E pod \in ClassifyPods :
       /\ cluster.pods["default"] = <<pod>>
       /\ Cardinality(failedLately(pod, 0)) = 2
       /\ pod.containerStatuses[1].lastTerminated # pod.containerStatuses[2].lastTerminated
       /\ problems[podRestartsId].message
            = podRestartsProblem(pod, pod.containerStatuses[1].lastTerminated, 0).message

(* ------------------------------------------------------------------ *)
(* C23                                                                *)
(* ------------------------------------------------------------------ *)

memId == memProblem(nodeSnapshot("n1", healthyConditions), 0).id

\* used / capacity >= 0.95, 0.95 being 19/20, for a capacity above 0
atLeast95Percent(used, capacity) == used * 20 >= capacity * 19

retryable(e) == e \in transientErrors

lastAttempt == send.attempts[Len(send.attempts)]

\* C24: SendMessage posts the message again after every attempt that failed
\* with a retryable error, and returns only after an attempt that succeeded,
\* returning nil, or failed with another error, returning that error; it
\* never returns a retryable error; a call whose outage ends returns, and a
\* call all of whose attempts fail retryably does not.
C24_RetryProtocol ==
  /\ [][ /\ (send.attempts # <<>> /\ retryable(lastAttempt) /\ send' # send)
              => /\ Len(send'.attempts) = Len(send.attempts) + 1
                 /\ send'.pc = "for"
         /\ (send.pc # "returned" /\ send'.pc = "returned")
              => /\ send.attempts # <<>>
                 /\ ~retryable(lastAttempt)
                 /\ send'.returned = lastAttempt
                 /\ \A i \in 1..(Len(send.attempts) - 1) : retryable(send.attempts[i])
                 /\ send'.attempts = send.attempts ]_vars
  /\ [](send.pc = "returned" => ~retryable(send.returned))
  /\ [](send.outage = forever => send.pc # "returned")
  /\ [](\A n \in 0..MaxOutage : (send.pc = "for" /\ send.outage = n) => <>(send.pc = "returned"))

\* the call returned nil after two attempts that failed retryably
C24_Witness ==
  /\ send.pc = "returned"
  /\ send.returned = nil
  /\ Len(send.attempts) = 3
  /\ retryable(send.attempts[1])
  /\ retryable(send.attempts[2])
  /\ send.attempts[3] = nil

(* ------------------------------------------------------------------ *)
(* C25                                                                *)
(* ------------------------------------------------------------------ *)

reportThresholdOf(problemType) ==
  IF problemType = problemTypeNodeResourcePressure THEN nodeResourcePressureReportAt
  ELSE IF problemType = problemTypePodPending THEN podPendingReportAt
  ELSE 1

\* C25: the record a step has counted a detection for is marked reported
\* exactly if its occurrence counter has reached the report threshold of its
\* kind; no record is marked reported with a counter below the threshold,
\* and a record that is marked stays marked while it lives.
C25_ReportedIffThresholdReached ==
  [][\A id \in DOMAIN problems' :
       LET problem == problems'[id]
           threshold == reportThresholdOf(problem.problemType)
       IN  /\ occuredCounterOf(problems', id) # occuredCounterOf(problems, id)
                => (problem.reported <=> problem.occuredCounter >= threshold)
           /\ problem.reported => problem.occuredCounter >= threshold
           /\ (id \in DOMAIN problems /\ problems[id].reported) => problem.reported]_vars

\* the cpu record of the node has been detected for the 10th time and is
\* marked, the pending pod's record for the 10th time and is not
C25_Witness ==
  /\ cpuId \in DOMAIN problems
  /\ problems[cpuId].occuredCounter = nodeResourcePressureReportAt
  /\ problems[cpuId].reported
  /\ podPendingId \in DOMAIN problems
  /\ problems[podPendingId].occuredCounter = nodeResourcePressureReportAt
  /\ ~problems[podPendingId].reported

(* ------------------------------------------------------------------ *)
(* C26                                                                *)
(* ------------------------------------------------------------------ *)

\* the messages a step puts into the channel
newMessages ==
  {msg \in DOMAIN sent' : sent'[msg] > (IF msg \in DOMAIN sent THEN sent[msg] ELSE 0)}

\* C26: the channel never holds more resolve messages than report messages
\* for a dedup key; a step that sends a resolve message sends it for a
\* record lifetime that has a report message and no resolve message in the
\* channel, sends it once, and leaves no record of that lifetime behind.
C26_ResolveFollowsReport ==
  /\ [](\A msg \in DOMAIN sent :
          Count(sent, "resolve", msg.id) <= Count(sent, "report", msg.id))
  /\ [][\A msg \in newMessages :
          msg.op = "resolve"
            => /\ CountLife(sent, "report", msg.id, msg.occured) >= 1
               /\ CountLife(sent, "resolve", msg.id, msg.occured) = 0
               /\ sent'[msg] = 1
               /\ msg.id \in DOMAIN problems' => problems'[msg.id].occured # msg.occured]_vars

\* the pod's critical status was reported, resolved, and reported again
C26_Witness ==
  /\ Count(sent, "report", podStatusId) = 2
  /\ Count(sent, "resolve", podStatusId) = 1
  /\ podStatusId \in DOMAIN problems

(* ------------------------------------------------------------------ *)
(* C27                                                                *)
(* ------------------------------------------------------------------ *)

\* what identifies and describes a record, its counters and flag left out
descriptionOf(problem) ==
  <<problem.problemType, problem.kind, problem.name, problem.namespace,
    problem.id, problem.message, problem.occured>>

\* C27: a record that a step keeps has the timestamp and the message (and
\* kind, name, namespace, type) it had before; a record a step inserts has
\* the time of that detection as timestamp and one detection counted; and
\* the sweep removes exactly the records whose timestamp, which is thus the
\* time of the first detection, is more than 30 minutes old.
C27_TimestampAndMessageFixed ==
  [][/\ \A id \in DOMAIN problems' :
          IF id \in DOMAIN problems
            THEN descriptionOf(problems'[id]) = descriptionOf(problems[id])
            ELSE /\ problems'[id].occured = now
                 /\ problems'[id].occuredCounter = 1
                 /\ problems'[id].resolvedCounter = 0
     /\ pc = "sleep"
          => \A id \in DOMAIN problems :
               id \notin DOMAIN problems' <=> now' - problems[id].occured > staleAge
     /\ pc # "sleep" => now' = now]_vars

\* the cpu record inserted at the start was counted in every cycle for 30
\* minutes and swept with the timestamp of the start; the record in the
\* registry is a new one, inserted in the cycle after the sweep
C27_Witness ==
  /\ cpuId \in DOMAIN problems
  /\ problems[cpuId].occured > staleAge
  /\ problems[cpuId].occured = now
  /\ problems[cpuId].occuredCounter = 1

====
